---- MODULE Spec2Model ----
(***************************************************************************)
(* Model of hbittrkr (src/src/main.rs): a terminal habit calendar.         *)
(* The state is the App struct (alcohol_log, cursor, view_mode,            *)
(* should_quit) together with the position of run_app's loop.  Dates are   *)
(* chrono NaiveDate values, modelled as the number of days since           *)
(* 1970-01-01 in the proleptic Gregorian calendar; the Option results of   *)
(* chrono's checked arithmetic are modelled as sets ({} is None, {d} is    *)
(* Some(d)), so that every .unwrap() of the source is a possible panic.    *)
(* Spec is run_app's loop; SpecRender follows one render pass (ui and the  *)
(* widget of the active view) cell by cell; SpecMain is main around        *)
(* run_app, with the terminal modes it sets and restores.                  *)
(***************************************************************************)
EXTENDS Integers, Sequences, FiniteSets, TLC

VARIABLES
    alcohol_log,   \* App.alcohol_log: function from the logged dates to BOOLEAN
    cursor,        \* App.cursor
    view_mode,     \* App.view_mode: "Year" or "Month"
    should_quit,   \* App.should_quit
    pc,            \* run_app: "loop" (loop head), "read" (blocked in event::read),
                   \* "done" (returned Ok), "error" (returned Err), "panic" (unwrap on
                   \* None in a key arm), "draw_panic" (panic inside terminal.draw)
    key,           \* the event last returned by event::read
    pre,           \* history: cursor, view_mode and alcohol_log before that event was handled
    trail,         \* history: alcohol_log before and after each of the latest consecutive ' ' keys
    drawn,         \* history: what the last terminal.draw was given
    rendersSinceKey,   \* history: draws completed since the last key event was read
    rendersSinceEvent, \* history: draws completed since the last event was read
    events,        \* history: number of events read so far
    keys,          \* history: number of key events among them
    \* one render pass (ui and the widget of the active view)
    rpc,           \* "idle", "start", "year_month", "year_loop", "month_loop", "done", "panic"
    term,          \* f.area(): width and height of the terminal
    now,           \* Local::now().date_naive() as the render reads it
    overflow_checks, \* build profile: TRUE when u16 overflow panics, FALSE when it wraps
    month_i,       \* Year view: the month of the for loop (0 outside it)
    first_day_of_month,
    last_day_of_month,
    current_date,
    calendar_area, \* Month view: the Rect of the calendar
    buf,           \* the drawing surface: cells written so far, by <<frame, x, y>>
    visited,       \* history: the dates the while loops handled, with the cell of each
    \* main
    mpc,           \* main: the step it is at ("enable_raw_mode", "execute_enter",
                   \* "terminal_new", "run_app", "disable_raw_mode", "execute_leave",
                   \* "show_cursor", "report") or how it returned ("returned_ok",
                   \* "returned_err")
    raw_mode,      \* the terminal is in raw mode
    alt_screen,    \* the terminal shows the alternate screen
    mouse_capture, \* the terminal reports mouse events
    failed_step,   \* history: the part of main that failed first: "none", "setup",
                   \* "run_app", "restore"
    reported       \* an error was printed: by println! or, for an Err returned
                   \* from main, by the runtime

renderVars == <<rpc, term, now, overflow_checks, month_i, first_day_of_month,
                last_day_of_month, current_date, calendar_area, buf, visited>>

mainVars == <<mpc, raw_mode, alt_screen, mouse_capture, failed_step, reported>>

vars == <<alcohol_log, cursor, view_mode, should_quit, pc, key, pre, trail,
          drawn, rendersSinceKey, rendersSinceEvent, events, keys, renderVars,
          mainVars>>

----------------------------------------------------------------------------
(* Bounds of the exploration *)

\* number of events a run reads
MaxEvents == 4

----------------------------------------------------------------------------
(* chrono: NaiveDate *)

\* NaiveDate::MIN is -262143-01-01 and NaiveDate::MAX is +262142-12-31
MIN_YEAR == 0 - 262143
MAX_YEAR == 262142

\* days from 1970-01-01 to y-m-d (proleptic Gregorian)
DaysFromCivil(y, m, d) ==
    LET y1  == IF m <= 2 THEN y - 1 ELSE y
        era == y1 \div 400
        yoe == y1 - era * 400
        mp  == (m + 9) % 12
        doy == (153 * mp + 2) \div 5 + d - 1
        doe == yoe * 365 + yoe \div 4 - yoe \div 100 + doy
    IN  era * 146097 + doe - 719468

\* <<year, month, day>> of a day number
CivilFromDays(z) ==
    LET z1  == z + 719468
        era == z1 \div 146097
        doe == z1 - era * 146097
        yoe == (doe - doe \div 1460 + doe \div 36524 - doe \div 146096) \div 365
        doy == doe - (365 * yoe + yoe \div 4 - yoe \div 100)
        mp  == (5 * doy + 2) \div 153
        d   == doy - (153 * mp + 2) \div 5 + 1
        m   == IF mp < 10 THEN mp + 3 ELSE mp - 9
        y   == yoe + era * 400 + (IF m <= 2 THEN 1 ELSE 0)
    IN  <<y, m, d>>

year(date)  == CivilFromDays(date)[1]
month(date) == CivilFromDays(date)[2]
day(date)   == CivilFromDays(date)[3]

MinDate == DaysFromCivil(MIN_YEAR, 1, 1)
MaxDate == DaysFromCivil(MAX_YEAR, 12, 31)

IsLeap(y) == (y % 4 = 0 /\ y % 100 # 0) \/ y % 400 = 0

DaysInMonth(y, m) ==
    IF m = 2 THEN (IF IsLeap(y) THEN 29 ELSE 28)
    ELSE IF m \in {4, 6, 9, 11} THEN 30 ELSE 31

\* NaiveDate::from_ymd_opt: None unless y-m-d is a date of the supported range
from_ymd_opt(y, m, d) ==
    IF /\ y >= MIN_YEAR /\ y <= MAX_YEAR
       /\ m >= 1 /\ m <= 12
       /\ d >= 1 /\ d <= DaysInMonth(y, m)
    THEN {DaysFromCivil(y, m, d)}
    ELSE {}

\* NaiveDate::checked_sub_days / checked_add_days: None when the result
\* leaves [NaiveDate::MIN, NaiveDate::MAX]
checked_sub_days(date, n) == IF date - n < MinDate THEN {} ELSE {date - n}
checked_add_days(date, n) == IF date + n > MaxDate THEN {} ELSE {date + n}

\* Option::unwrap on a Some
unwrap(opt) == CHOOSE d \in opt : TRUE

----------------------------------------------------------------------------
(* impl App *)

\* App::new: the six demo entries, all true
SeedLog(today) ==
    [d \in {today - 1, today - 2, today - 5, today - 10, today - 12, today - 13} |-> TRUE]

\* variant: the missing entry is created as true
or_insert_true(log, date) ==
    IF date \in DOMAIN log THEN log
    ELSE [d \in DOMAIN log \cup {date} |-> IF d = date THEN TRUE ELSE log[d]]

\* HashMap::entry(date).or_insert(false)
or_insert_false(log, date) ==
    IF date \in DOMAIN log THEN log
    ELSE [d \in DOMAIN log \cup {date} |-> IF d = date THEN FALSE ELSE log[d]]

\* variant: a toggle that clears a true entry instead of storing false
toggle_remove(log, date) ==
    IF date \in DOMAIN log /\ log[date]
    THEN [d \in DOMAIN log \ {date} |-> log[d]]
    ELSE [d \in DOMAIN log \cup {date} |-> IF d = date THEN TRUE ELSE log[d]]

\* variant: a toggle that stores true without flipping
toggle_set_true(log, date) ==
    [d \in DOMAIN log \cup {date} |-> IF d = date THEN TRUE ELSE log[d]]

\* App::toggle_selected_day, as a function of the log and the cursor
toggle_selected_day(log, date) ==
    LET l1 == or_insert_false(log, date)
    IN  [l1 EXCEPT ![date] = ~l1[date]]

move_cursor_left(c)        == checked_sub_days(c, 7)
move_cursor_right(c)       == checked_add_days(c, 7)
move_cursor_up(c)          == checked_sub_days(c, 1)
move_cursor_down(c)        == checked_add_days(c, 1)
move_cursor_left_month(c)  == checked_sub_days(c, 1)
move_cursor_right_month(c) == checked_add_days(c, 1)
move_cursor_up_month(c)    == checked_sub_days(c, 7)
move_cursor_down_month(c)  == checked_add_days(c, 7)

next_month(c) ==
    LET m  == month(c)
        nm == IF m = 12 THEN 1 ELSE m + 1
        y  == IF m = 12 THEN year(c) + 1 ELSE year(c)
    IN  from_ymd_opt(y, nm, 1)

prev_month(c) ==
    LET m  == month(c)
        pm == IF m = 1 THEN 12 ELSE m - 1
        y  == IF m = 1 THEN year(c) - 1 ELSE year(c)
    IN  from_ymd_opt(y, pm, 1)

\* variant: the argument is ignored
set_view_mode_year(vm) == "Year"

set_view_mode(vm) == vm

\* run_app's match on app.view_mode under each arrow key
arrow_left(vm, c)  == IF vm = "Year" THEN move_cursor_left(c)  ELSE move_cursor_left_month(c)
arrow_right(vm, c) == IF vm = "Year" THEN move_cursor_right(c) ELSE move_cursor_right_month(c)
arrow_up(vm, c)    == IF vm = "Year" THEN move_cursor_up(c)    ELSE move_cursor_up_month(c)
arrow_down(vm, c)  == IF vm = "Year" THEN move_cursor_down(c)  ELSE move_cursor_down_month(c)

\* run_app's if-let on app.view_mode under PageUp / PageDown
page_up(vm, c)   == IF vm = "Month" THEN prev_month(c) ELSE {c}
page_down(vm, c) == IF vm = "Month" THEN next_month(c) ELSE {c}

----------------------------------------------------------------------------
(* Initial states *)

\* the local date the clock gives App::new
Todays == {DaysFromCivil(2024, 3, 15), DaysFromCivil(2024, 1, 3)}

\* Cursors a run starts from besides today.  Every date of the supported
\* range is reached from today by Up/Down keys in Year mode, which change
\* nothing but the cursor; the exploration starts after such a prefix.
FarCursors ==
    {DaysFromCivil(2023, 12, 31), DaysFromCivil(2024, 1, 31),
     MinDate, MinDate + 3, MinDate + 8}

Snapshot == [cursor |-> cursor, view_mode |-> view_mode, log |-> alcohol_log]

\* the surface before anything is written
EmptyBuffer == [p \in {} |-> {}]

\* no render pass is being followed
RenderIdle ==
    /\ rpc = "idle"
    /\ term = [width |-> 0, height |-> 0]
    /\ now = 0
    /\ overflow_checks = FALSE
    /\ month_i = 0
    /\ first_day_of_month = 0
    /\ last_day_of_month = 0
    /\ current_date = 0
    /\ calendar_area = [x |-> 0, y |-> 0, width |-> 0, height |-> 0]
    /\ buf = EmptyBuffer
    /\ visited = <<>>

\* main has set the terminal up and called run_app
MainRunning ==
    /\ mpc = "run_app"
    /\ raw_mode = TRUE
    /\ alt_screen = TRUE
    /\ mouse_capture = TRUE
    /\ failed_step = "none"
    /\ reported = FALSE

\* the App of App::new at the head of run_app's loop
AppStart ==
    \E today \in Todays :
        /\ alcohol_log = SeedLog(today)
        /\ cursor \in {today} \cup FarCursors
        /\ view_mode = "Year"
        /\ should_quit = FALSE
        /\ pc = "loop"
        /\ key = "None"
        /\ pre = [cursor |-> cursor, view_mode |-> "Year", log |-> SeedLog(today)]
        /\ trail = <<SeedLog(today)>>
        /\ drawn = [cursor |-> cursor, view_mode |-> "None", log |-> SeedLog(today)]
        /\ rendersSinceKey = 0
        /\ rendersSinceEvent = 0
        /\ events = 0
        /\ keys = 0
        /\ RenderIdle

Init == AppStart /\ MainRunning

----------------------------------------------------------------------------
(* ui: the layout around the widget of the active view *)

\* Block::inner with Borders::ALL
Inner(r) ==
    [x |-> r.x + 1, y |-> r.y + 1,
     width  |-> IF r.width < 2 THEN 0 ELSE r.width - 2,
     height |-> IF r.height < 2 THEN 0 ELSE r.height - 2]

\* graph_area: what is left of the terminal below the 3-row title, above
\* the 1 + 3 + 1 rows of cursor date, instructions and legend, right of the
\* 4-column day labels, inside the border of graph_block
GraphArea(t) ==
    Inner([x |-> 4, y |-> 3, width |-> t.width - 4, height |-> t.height - (3 + 1 + 3 + 1)])

----------------------------------------------------------------------------
(* chrono and ratatui operations of the widgets *)

\* Weekday::num_days_from_sunday of NaiveDate::weekday (1970-01-01 was a Thursday)
num_days_from_sunday(date) == (date + 4) % 7

\* Datelike::day0
day0(date) == day(date) - 1

\* NaiveDate::succ_opt
succ_opt(date) == IF date >= MaxDate THEN {} ELSE {date + 1}

\* Buffer::set_string: the graphemes of syms from (x, y) on, in frame f, as
\* far as they lie left of the edge `right`; the style sets fg, and bg
\* unless bg is "Keep"
set_string(b, f, x, y, syms, fg, bg, right) ==
    LET new == {<<f, x + i - 1, y>> : i \in {j \in 1..Len(syms) : x + j - 1 < right}}
        old(p) == IF p \in DOMAIN b THEN b[p].bg ELSE "Reset"
    IN  [p \in DOMAIN b \cup new |->
            IF p \in new
            THEN [symbol |-> syms[p[2] - x + 1], fg |-> fg,
                  bg |-> IF bg = "Keep" THEN old(p) ELSE bg]
            ELSE b[p]]

\* Buffer::set_string indexes a cell below the last row of the buffer
set_string_panics(x, y, right, bottom) == x < right /\ y >= bottom

\* format!("{:2}", n) for a day of the month
Digit(n) == <<"0", "1", "2", "3", "4", "5", "6", "7", "8", "9">>[n + 1]
format_2(n) == IF n < 10 THEN <<" ", Digit(n)>> ELSE <<Digit(n \div 10), Digit(n % 10)>>

----------------------------------------------------------------------------
(* The two widgets *)

\* first_day_of_month and last_day_of_month of month m of year y, as both
\* widgets compute them: None when one of the unwraps would panic
month_bounds(y, m) ==
    LET first == from_ymd_opt(y, m, 1)
        nxt   == IF m = 12 THEN from_ymd_opt(y + 1, 1, 1) ELSE from_ymd_opt(y, m + 1, 1)
        last  == UNION {checked_sub_days(d, 1) : d \in nxt}
    IN  IF first = {} \/ last = {} THEN {} ELSE {<<unwrap(first), unwrap(last)>>}

\* variant: the week is counted from January 1, running through the year
week_number_year(date, first) ==
    LET jan1 == DaysFromCivil(year(date), 1, 1)
    IN  ((date - jan1) + num_days_from_sunday(jan1)) \div 7

\* variant: the week is counted from the day of the month, not from day0
week_number_day(date, first) == (day(date) + num_days_from_sunday(first)) \div 7

\* week_number of both while loops
week_number(date, first) == (day0(date) + num_days_from_sunday(first)) \div 7

\* variant: || replaced by &&
too_small_and(a) == a.width < 53 * 2 /\ a.height < 8

\* HabitGraph::render: the guard before render_graph
too_small(a) == a.width < 53 * 2 \/ a.height < 8

\* the match on self.data.get(&current_date) in HabitGraph::render_graph
year_base(log, date) ==
    IF date \in DOMAIN log
    THEN (IF log[date] THEN <<"FilledSquare", "Red">> ELSE <<"FilledSquare", "Green">>)
    ELSE <<"HollowSquare", "Rgb(50,50,50)">>

\* variant: the today test comes after the cursor test
year_color_today_last(log, date, today, cur) ==
    LET c0 == year_base(log, date)[2]
        c1 == IF day(date) = 1 THEN "Yellow" ELSE c0
        c2 == IF date = cur THEN "White" ELSE c1
    IN  IF date = today THEN "Cyan" ELSE c2

\* the colour HabitGraph::render_graph ends with: each if overrides the last
year_color(log, date, today, cur) ==
    LET c0 == year_base(log, date)[2]
        c1 == IF day(date) = 1 THEN "Yellow" ELSE c0
        c2 == IF date = today THEN "Cyan" ELSE c1
    IN  IF date = cur THEN "White" ELSE c2

\* the match on self.data.get and the today test in MonthView::render
month_glyph(log, date, today) ==
    LET base == IF date \in DOMAIN log
                THEN (IF log[date] THEN <<"FilledSquare", "Red">> ELSE <<"FilledSquare", "Green">>)
                ELSE <<" ", "Rgb(50,50,50)">>
    IN  <<base[1], IF date = today THEN "Cyan" ELSE base[2]>>

\* the style of the day number in MonthView::render: <<fg, bg>>
label_style(date, cur) == IF date = cur THEN <<"Black", "White">> ELSE <<"White", "Keep">>

\* calendar_area of MonthView::render, u16 arithmetic wrapping
calendar_rect(inner) ==
    [x |-> (inner.x + ((inner.width - 28) % 65536) \div 2) % 65536,
     y |-> inner.y + 2, width |-> 28, height |-> 7]

\* terminals: wide and high; 80 x 24; graph area 106 x 7; graph area
\* 106 x 8; narrower than the calendar; too few rows for week rows
RenderTerminals ==
    {[width |-> 120, height |-> 30], [width |-> 80, height |-> 24],
     [width |-> 112, height |-> 17], [width |-> 112, height |-> 18],
     [width |-> 30, height |-> 24], [width |-> 80, height |-> 13]}

\* the render pass of view vm with cursor c on terminal t panics: an unwrap
\* of the month bounds or of succ_opt meets None, inner_area.width - 28
\* overflows in a build with overflow checks (oc), or a set_string of the
\* Month view indexes a row below the buffer
RenderPanics(vm, c, t, oc) ==
    IF vm = "Year"
    THEN /\ ~too_small(GraphArea(t))
         /\ \E m \in 1..12 :
               \/ month_bounds(year(c), m) = {}
               \/ succ_opt(unwrap(month_bounds(year(c), m))[2]) = {}
    ELSE LET b     == month_bounds(year(c), month(c))
             inner == Inner(GraphArea(t))
             ca    == calendar_rect(inner)
         IN  \/ b = {}
             \/ (inner.width < 28 /\ oc)
             \/ set_string_panics(ca.x, ca.y, t.width, t.height)
             \/ \E d \in unwrap(b)[1]..unwrap(b)[2] :
                   \/ set_string_panics((ca.x + num_days_from_sunday(d) * 4) % 65536,
                                        ca.y + 2 + week_number(d, unwrap(b)[1]),
                                        t.width, t.height)
                   \/ succ_opt(d) = {}

----------------------------------------------------------------------------
(* run_app *)

appVars == <<alcohol_log, cursor, view_mode, should_quit>>
histVars == <<key, pre, trail, events, keys>>

\* while !app.should_quit fails: return Ok(())
Exit ==
    /\ pc = "loop"
    /\ should_quit
    /\ pc' = "done"
    /\ UNCHANGED <<appVars, histVars, drawn, rendersSinceKey, rendersSinceEvent>>
    /\ UNCHANGED <<renderVars, mainVars>>

\* variant: the loop goes on to event::read without drawing
Draw_norender ==
    /\ pc = "loop"
    /\ ~should_quit
    /\ pc' = "read"
    /\ UNCHANGED <<appVars, histVars, drawn, rendersSinceKey, rendersSinceEvent>>
    /\ UNCHANGED <<renderVars, mainVars>>

\* the terminal sizes and build profiles (overflow checks on or off) of the
\* draws of a run: a terminal the grids fit in, one too short for the
\* Month view's week rows, one narrower than the calendar
DrawSizes ==
    {<<[width |-> 120, height |-> 30], FALSE>>,
     <<[width |-> 80, height |-> 13], FALSE>>,
     <<[width |-> 30, height |-> 24], TRUE>>}

\* the sizes of DrawSizes on which the render pass of the App panics
PanicSizes == {s \in DrawSizes : RenderPanics(view_mode, cursor, s[1], s[2])}

\* terminal.draw(|f| ui(f, &app)): the render pass panics
DrawPanic ==
    /\ pc = "loop"
    /\ ~should_quit
    /\ PanicSizes # {}
    /\ pc' = "draw_panic"
    /\ UNCHANGED <<appVars, histVars, drawn, rendersSinceKey, rendersSinceEvent>>
    /\ UNCHANGED <<renderVars, mainVars>>

\* terminal.draw(|f| ui(f, &app))? succeeds
Draw ==
    /\ pc = "loop"
    /\ ~should_quit
    /\ PanicSizes # DrawSizes
    /\ drawn' = Snapshot
    /\ rendersSinceKey' = rendersSinceKey + 1
    /\ rendersSinceEvent' = rendersSinceEvent + 1
    /\ pc' = "read"
    /\ UNCHANGED <<appVars, histVars>>
    /\ UNCHANGED <<renderVars, mainVars>>

\* terminal.draw(...)? returns Err
DrawError ==
    /\ pc = "loop"
    /\ ~should_quit
    /\ pc' = "error"
    /\ UNCHANGED <<appVars, histVars, drawn, rendersSinceKey, rendersSinceEvent>>
    /\ UNCHANGED <<renderVars, mainVars>>

\* event::read()? returns Err
ReadError ==
    /\ pc = "read"
    /\ pc' = "error"
    /\ UNCHANGED <<appVars, histVars, drawn, rendersSinceKey, rendersSinceEvent>>
    /\ UNCHANGED <<renderVars, mainVars>>

\* event::read() returns an event that is not Event::Key (mouse, resize):
\* the if-let does not match and the loop goes round
NonKeyEvent ==
    /\ pc = "read"
    /\ events < MaxEvents
    /\ key' = "NonKey"
    /\ pre' = Snapshot
    /\ events' = events + 1
    /\ rendersSinceEvent' = 0
    /\ pc' = "loop"
    /\ UNCHANGED <<appVars, trail, drawn, rendersSinceKey, keys>>
    /\ UNCHANGED <<renderVars, mainVars>>

\* The history written by every key event; newLog is the log the arm leaves
KeyRead(k, newLog) ==
    /\ pc = "read"
    /\ events < MaxEvents
    /\ key' = k
    /\ pre' = Snapshot
    /\ events' = events + 1
    /\ keys' = keys + 1
    /\ rendersSinceKey' = 0
    /\ rendersSinceEvent' = 0
    /\ trail' = IF k = "Space" THEN Append(trail, newLog) ELSE <<newLog>>
    /\ UNCHANGED drawn
    /\ UNCHANGED <<renderVars, mainVars>>

\* a match arm that assigns app.cursor = <opt>.unwrap()
SetCursor(opt) ==
    IF opt = {}
    THEN /\ pc' = "panic"
         /\ UNCHANGED cursor
    ELSE /\ pc' = "loop"
         /\ cursor' = unwrap(opt)

\* KeyCode::Char('q') => app.should_quit = true
KeyQuit ==
    /\ KeyRead("q", alcohol_log)
    /\ should_quit' = TRUE
    /\ pc' = "loop"
    /\ UNCHANGED <<alcohol_log, cursor, view_mode>>

\* variant: the toggle also steps the cursor to the next day
KeySpace_advance ==
    /\ KeyRead("Space", toggle_selected_day(alcohol_log, cursor))
    /\ alcohol_log' = toggle_selected_day(alcohol_log, cursor)
    /\ cursor' = cursor + 1
    /\ pc' = "loop"
    /\ UNCHANGED <<view_mode, should_quit>>

\* KeyCode::Char(' ') => app.toggle_selected_day()
KeySpace ==
    /\ KeyRead("Space", toggle_selected_day(alcohol_log, cursor))
    /\ alcohol_log' = toggle_selected_day(alcohol_log, cursor)
    /\ pc' = "loop"
    /\ UNCHANGED <<cursor, view_mode, should_quit>>

KeyLeft ==
    /\ KeyRead("Left", alcohol_log)
    /\ SetCursor(arrow_left(view_mode, cursor))
    /\ UNCHANGED <<alcohol_log, view_mode, should_quit>>

KeyRight ==
    /\ KeyRead("Right", alcohol_log)
    /\ SetCursor(arrow_right(view_mode, cursor))
    /\ UNCHANGED <<alcohol_log, view_mode, should_quit>>

KeyUp ==
    /\ KeyRead("Up", alcohol_log)
    /\ SetCursor(arrow_up(view_mode, cursor))
    /\ UNCHANGED <<alcohol_log, view_mode, should_quit>>

KeyDown ==
    /\ KeyRead("Down", alcohol_log)
    /\ SetCursor(arrow_down(view_mode, cursor))
    /\ UNCHANGED <<alcohol_log, view_mode, should_quit>>

KeyPageUp ==
    /\ KeyRead("PageUp", alcohol_log)
    /\ SetCursor(page_up(view_mode, cursor))
    /\ UNCHANGED <<alcohol_log, view_mode, should_quit>>

KeyPageDown ==
    /\ KeyRead("PageDown", alcohol_log)
    /\ SetCursor(page_down(view_mode, cursor))
    /\ UNCHANGED <<alcohol_log, view_mode, should_quit>>

\* KeyCode::Char('y') => app.set_view_mode(ViewMode::Year)
KeyY ==
    /\ KeyRead("y", alcohol_log)
    /\ view_mode' = set_view_mode("Year")
    /\ pc' = "loop"
    /\ UNCHANGED <<alcohol_log, cursor, should_quit>>

\* KeyCode::Char('m') => app.set_view_mode(ViewMode::Month)
KeyM ==
    /\ KeyRead("m", alcohol_log)
    /\ view_mode' = set_view_mode("Month")
    /\ pc' = "loop"
    /\ UNCHANGED <<alcohol_log, cursor, should_quit>>

\* _ => {}
KeyOther ==
    /\ KeyRead("Other", alcohol_log)
    /\ pc' = "loop"
    /\ UNCHANGED <<alcohol_log, cursor, view_mode, should_quit>>

Next ==
    \/ Exit
    \/ Draw
    \/ DrawPanic
    \/ DrawError
    \/ ReadError
    \/ NonKeyEvent
    \/ KeyQuit
    \/ KeySpace
    \/ KeyLeft
    \/ KeyRight
    \/ KeyUp
    \/ KeyDown
    \/ KeyPageUp
    \/ KeyPageDown
    \/ KeyY
    \/ KeyM
    \/ KeyOther

Spec == Init /\ [][Next]_vars

----------------------------------------------------------------------------
(* One render pass, step by step *)

renderState == <<month_i, first_day_of_month, last_day_of_month, current_date,
                 calendar_area, buf, visited>>
renderInputs == <<term, now, overflow_checks>>
loopVars == <<alcohol_log, cursor, view_mode, should_quit, pc, key, pre, trail,
              drawn, rendersSinceKey, rendersSinceEvent, events, keys>>

\* HabitGraph::render
YearRender ==
    /\ rpc = "start"
    /\ view_mode = "Year"
    /\ IF too_small(GraphArea(term))
       THEN rpc' = "done" /\ UNCHANGED month_i
       ELSE rpc' = "year_month" /\ month_i' = 1
    /\ UNCHANGED <<first_day_of_month, last_day_of_month, current_date,
                   calendar_area, buf, visited>>
    /\ UNCHANGED <<renderInputs, loopVars, mainVars>>

\* render_graph: one round of for month in 1..=12, up to its while loop
YearMonth ==
    /\ rpc = "year_month"
    /\ IF month_i > 12
       THEN /\ rpc' = "done"
            /\ UNCHANGED <<first_day_of_month, last_day_of_month, current_date>>
       ELSE LET b == month_bounds(year(cursor), month_i)
            IN  IF b = {}
                THEN /\ rpc' = "panic"
                     /\ UNCHANGED <<first_day_of_month, last_day_of_month, current_date>>
                ELSE /\ rpc' = "year_loop"
                     /\ first_day_of_month' = unwrap(b)[1]
                     /\ last_day_of_month' = unwrap(b)[2]
                     /\ current_date' = unwrap(b)[1]
    /\ UNCHANGED <<month_i, calendar_area, buf, visited>>
    /\ UNCHANGED <<renderInputs, loopVars, mainVars>>

\* render_graph: one round of while current_date <= last_day_of_month.
\* The cell is addressed from the inner_area of the month's block (frame
\* month_i); where Layout puts the twelve blocks is not modelled.
YearDay ==
    /\ rpc = "year_loop"
    /\ current_date <= last_day_of_month
    /\ LET day_of_week == num_days_from_sunday(current_date)
           week        == week_number(current_date, first_day_of_month)
           symbol      == year_base(alcohol_log, current_date)[1]
           color       == year_color(alcohol_log, current_date, now, cursor)
       IN  /\ buf' = set_string(buf, month_i, day_of_week * 2, week,
                                <<symbol>>, color, "Keep", 65536)
           /\ visited' = Append(visited, [date |-> current_date, frame |-> month_i,
                                          x |-> day_of_week * 2, y |-> week])
    /\ IF succ_opt(current_date) = {}
       THEN rpc' = "panic" /\ UNCHANGED current_date
       ELSE rpc' = "year_loop" /\ current_date' = unwrap(succ_opt(current_date))
    /\ UNCHANGED <<month_i, first_day_of_month, last_day_of_month, calendar_area>>
    /\ UNCHANGED <<renderInputs, loopVars, mainVars>>

\* render_graph: the while loop of a month ends
YearMonthEnd ==
    /\ rpc = "year_loop"
    /\ current_date > last_day_of_month
    /\ month_i' = month_i + 1
    /\ rpc' = "year_month"
    /\ UNCHANGED <<first_day_of_month, last_day_of_month, current_date,
                   calendar_area, buf, visited>>
    /\ UNCHANGED <<renderInputs, loopVars, mainVars>>

\* the weekday header of MonthView::render
HeaderLabels == <<<<"S", "u", "n">>, <<"M", "o", "n">>, <<"T", "u", "e">>, <<"W", "e", "d">>,
                  <<"T", "h", "u">>, <<"F", "r", "i">>, <<"S", "a", "t">>>>

RECURSIVE WriteHeader(_, _, _)
WriteHeader(b, ca, i) ==
    IF i > 7 THEN b
    ELSE WriteHeader(set_string(b, 0, (ca.x + (i - 1) * 4) % 65536, ca.y, HeaderLabels[i],
                                "Reset", "Keep", term.width),
                     ca, i + 1)

\* MonthView::render up to its while loop: the bounds of the month, the
\* calendar_area and the header (the block border and the title line are
\* written outside the calendar and are left out)
MonthRenderStart ==
    /\ rpc = "start"
    /\ view_mode = "Month"
    /\ LET b     == month_bounds(year(cursor), month(cursor))
           inner == Inner(GraphArea(term))
           ca    == calendar_rect(inner)
       IN  IF \/ b = {}
              \/ (inner.width < 28 /\ overflow_checks)
              \/ set_string_panics(ca.x, ca.y, term.width, term.height)
           THEN /\ rpc' = "panic"
                /\ UNCHANGED <<first_day_of_month, last_day_of_month, current_date,
                               calendar_area, buf>>
           ELSE /\ rpc' = "month_loop"
                /\ first_day_of_month' = unwrap(b)[1]
                /\ last_day_of_month' = unwrap(b)[2]
                /\ current_date' = unwrap(b)[1]
                /\ calendar_area' = ca
                /\ buf' = WriteHeader(buf, ca, 1)
    /\ UNCHANGED <<month_i, visited>>
    /\ UNCHANGED <<renderInputs, loopVars, mainVars>>

\* MonthView::render: one round of while current_date <= last_day_of_month:
\* the square, then the day number at the same place
MonthDay ==
    /\ rpc = "month_loop"
    /\ current_date <= last_day_of_month
    /\ LET week_day == num_days_from_sunday(current_date)
           week     == week_number(current_date, first_day_of_month)
           x        == (calendar_area.x + week_day * 4) % 65536
           y        == calendar_area.y + 2 + week
           glyph    == month_glyph(alcohol_log, current_date, now)
           style    == label_style(current_date, cursor)
           b1       == set_string(buf, 0, x, y, <<glyph[1]>>, glyph[2], "Keep", term.width)
           b2       == set_string(b1, 0, x, y, format_2(day(current_date)),
                                  style[1], style[2], term.width)
       IN  IF set_string_panics(x, y, term.width, term.height)
           THEN /\ rpc' = "panic"
                /\ UNCHANGED <<buf, visited, current_date>>
           ELSE /\ buf' = b2
                /\ visited' = Append(visited, [date |-> current_date, frame |-> 0,
                                               x |-> x, y |-> y])
                /\ IF succ_opt(current_date) = {}
                   THEN rpc' = "panic" /\ UNCHANGED current_date
                   ELSE rpc' = "month_loop" /\ current_date' = unwrap(succ_opt(current_date))
    /\ UNCHANGED <<month_i, first_day_of_month, last_day_of_month, calendar_area>>
    /\ UNCHANGED <<renderInputs, loopVars, mainVars>>

\* MonthView::render: the while loop ends
MonthEnd ==
    /\ rpc = "month_loop"
    /\ current_date > last_day_of_month
    /\ rpc' = "done"
    /\ UNCHANGED <<renderState, renderInputs, loopVars, mainVars>>

----------------------------------------------------------------------------
(* A render pass on its own: the App as some sequence of keys left it *)

RenderToday == DaysFromCivil(2024, 3, 15)

\* logs a run reaches from App::new by toggling one of the days around today
RenderLogs ==
    {SeedLog(RenderToday),
     toggle_selected_day(SeedLog(RenderToday), RenderToday - 1),
     toggle_selected_day(SeedLog(RenderToday), RenderToday)}

\* cursors of Year mode: today, the last day of a year, the first and the
\* last year of NaiveDate
YearCursors ==
    {RenderToday, DaysFromCivil(2023, 12, 31), MinDate + 3, MaxDate - 40}

\* cursors of Month mode: today and its first of month, a day in every
\* month of 2024, Februaries of 28 days, the first and the last months of
\* NaiveDate
MonthCursors ==
    {RenderToday, DaysFromCivil(2024, 3, 1)}
    \cup {DaysFromCivil(2024, m, 20) : m \in 1..12}
    \cup {DaysFromCivil(2023, 2, 10), DaysFromCivil(2015, 2, 28), DaysFromCivil(2023, 12, 31),
          MinDate + 3, MaxDate - 31, MaxDate - 30}

InitRender ==
    /\ view_mode \in {"Year", "Month"}
    /\ cursor \in IF view_mode = "Year" THEN YearCursors ELSE MonthCursors
    /\ alcohol_log \in RenderLogs
    /\ should_quit = FALSE
    /\ pc = "loop"
    /\ key = "None"
    /\ pre = Snapshot
    /\ trail = <<alcohol_log>>
    /\ drawn = [cursor |-> cursor, view_mode |-> "None", log |-> alcohol_log]
    /\ rendersSinceKey = 0
    /\ rendersSinceEvent = 0
    /\ events = 0
    /\ keys = 0
    /\ rpc = "start"
    /\ term \in RenderTerminals
    /\ now \in {RenderToday, RenderToday + 1}
    /\ overflow_checks \in BOOLEAN
    /\ month_i = 0
    /\ first_day_of_month = 0
    /\ last_day_of_month = 0
    /\ current_date = 0
    /\ calendar_area = [x |-> 0, y |-> 0, width |-> 0, height |-> 0]
    /\ buf = EmptyBuffer
    /\ visited = <<>>
    /\ MainRunning

NextRender ==
    \/ YearRender
    \/ YearMonth
    \/ YearDay
    \/ YearMonthEnd
    \/ MonthRenderStart
    \/ MonthDay
    \/ MonthEnd

SpecRender == InitRender /\ [][NextRender]_vars

----------------------------------------------------------------------------
(* main: terminal setup, run_app, terminal restore *)

modes == <<raw_mode, alt_screen, mouse_capture>>

\* which of its two commands execute! has carried out when it fails: the
\* error comes from the first command, from the second, or from the flush
PartialPairs == {<<FALSE, FALSE>>, <<TRUE, FALSE>>, <<TRUE, TRUE>>}

\* an Err leaves main through a ?: the runtime prints it and the process ends
ReturnErr(part) ==
    /\ mpc' = "returned_err"
    /\ failed_step' = IF failed_step = "none" THEN part ELSE failed_step
    /\ reported' = TRUE

\* enable_raw_mode()?
EnableRawMode ==
    /\ mpc = "enable_raw_mode"
    /\ \/ /\ raw_mode' = TRUE
          /\ mpc' = "execute_enter"
          /\ UNCHANGED <<failed_step, reported>>
       \/ /\ ReturnErr("setup")
          /\ UNCHANGED raw_mode
    /\ UNCHANGED <<alt_screen, mouse_capture, loopVars, renderVars>>

\* execute!(stdout, EnterAlternateScreen, EnableMouseCapture)?
ExecuteEnter ==
    /\ mpc = "execute_enter"
    /\ \/ /\ alt_screen' = TRUE
          /\ mouse_capture' = TRUE
          /\ mpc' = "terminal_new"
          /\ UNCHANGED <<failed_step, reported>>
       \/ /\ \E done \in PartialPairs :
                /\ alt_screen' = done[1]
                /\ mouse_capture' = done[2]
          /\ ReturnErr("setup")
    /\ UNCHANGED <<raw_mode, loopVars, renderVars>>

\* Terminal::new(backend)?, then App::new() and the call of run_app
TerminalNew ==
    /\ mpc = "terminal_new"
    /\ \/ /\ mpc' = "run_app"
          /\ UNCHANGED <<failed_step, reported>>
       \/ ReturnErr("setup")
    /\ UNCHANGED <<modes, loopVars, renderVars>>

\* run_app returns Ok(()) or Err into res
RunAppReturns ==
    /\ mpc = "run_app"
    /\ pc \in {"done", "error"}
    /\ mpc' = "disable_raw_mode"
    /\ failed_step' = IF pc = "error" THEN "run_app" ELSE failed_step
    /\ UNCHANGED <<reported, modes, loopVars, renderVars>>

\* disable_raw_mode()?
DisableRawMode ==
    /\ mpc = "disable_raw_mode"
    /\ \/ /\ raw_mode' = FALSE
          /\ mpc' = "execute_leave"
          /\ UNCHANGED <<failed_step, reported>>
       \/ /\ ReturnErr("restore")
          /\ UNCHANGED raw_mode
    /\ UNCHANGED <<alt_screen, mouse_capture, loopVars, renderVars>>

\* execute!(terminal.backend_mut(), LeaveAlternateScreen, DisableMouseCapture)?
ExecuteLeave ==
    /\ mpc = "execute_leave"
    /\ \/ /\ alt_screen' = FALSE
          /\ mouse_capture' = FALSE
          /\ mpc' = "show_cursor"
          /\ UNCHANGED <<failed_step, reported>>
       \/ /\ \E done \in PartialPairs :
                /\ alt_screen' = ~done[1]
                /\ mouse_capture' = ~done[2]
          /\ ReturnErr("restore")
    /\ UNCHANGED <<raw_mode, loopVars, renderVars>>

\* terminal.show_cursor()?
ShowCursor ==
    /\ mpc = "show_cursor"
    /\ \/ /\ mpc' = "report"
          /\ UNCHANGED <<failed_step, reported>>
       \/ ReturnErr("restore")
    /\ UNCHANGED <<modes, loopVars, renderVars>>

\* if let Err(err) = res { println!(..) }; Ok(())
Report ==
    /\ mpc = "report"
    /\ reported' = (pc = "error")
    /\ mpc' = "returned_ok"
    /\ UNCHANGED <<failed_step, modes, loopVars, renderVars>>

\* the process starts: nothing of the terminal is changed yet
MainStart ==
    /\ mpc = "enable_raw_mode"
    /\ raw_mode = FALSE
    /\ alt_screen = FALSE
    /\ mouse_capture = FALSE
    /\ failed_step = "none"
    /\ reported = FALSE

InitMain == AppStart /\ MainStart

\* run_app's steps, while main is inside run_app
RunApp == mpc = "run_app" /\ Next

NextMain ==
    \/ EnableRawMode
    \/ ExecuteEnter
    \/ TerminalNew
    \/ RunApp
    \/ RunAppReturns
    \/ DisableRawMode
    \/ ExecuteLeave
    \/ ShowCursor
    \/ Report

SpecMain == InitMain /\ [][NextMain]_vars

----------------------------------------------------------------------------
(* Sanity of the date encoding *)

TypeOK ==
    /\ cursor \in MinDate..MaxDate
    /\ DaysFromCivil(year(cursor), month(cursor), day(cursor)) = cursor
    /\ view_mode \in {"Year", "Month"}
    /\ pc \in {"loop", "read", "done", "error", "panic", "draw_panic"}

----------------------------------------------------------------------------
(* Properties *)

Arrows == {"Left", "Right", "Up", "Down"}

\* the transition table of the arrow keys, in days
TableDelta(k, vm) ==
    IF vm = "Year"
    THEN CASE k = "Left" -> 0 - 7 [] k = "Right" -> 7 [] k = "Up" -> 0 - 1 [] k = "Down" -> 1
    ELSE CASE k = "Left" -> 0 - 1 [] k = "Right" -> 1 [] k = "Up" -> 0 - 7 [] k = "Down" -> 7

\* first day of the month after / before the month of date c
FirstOfFollowing(c) ==
    IF month(c) = 12 THEN DaysFromCivil(year(c) + 1, 1, 1)
    ELSE DaysFromCivil(year(c), month(c) + 1, 1)
FirstOfPreceding(c) ==
    IF month(c) = 1 THEN DaysFromCivil(year(c) - 1, 12, 1)
    ELSE DaysFromCivil(year(c), month(c) - 1, 1)

\* The navigation keys away from the ends of the NaiveDate range: every
\* arrow or paging key that does not panic moves the cursor as the
\* transition table says, and a panic happens only where the target date
\* would lie before NaiveDate::MIN or after NaiveDate::MAX.
InRangeNavigation ==
    /\ (key \in Arrows /\ pc # "panic") =>
          cursor = pre.cursor + TableDelta(key, pre.view_mode)
    /\ (key = "PageDown" /\ pc # "panic") =>
          cursor = IF pre.view_mode = "Year" THEN pre.cursor ELSE FirstOfFollowing(pre.cursor)
    /\ (key = "PageUp" /\ pc # "panic") =>
          cursor = IF pre.view_mode = "Year" THEN pre.cursor ELSE FirstOfPreceding(pre.cursor)
    /\ (key \in Arrows /\ pc = "panic") =>
          cursor + TableDelta(key, view_mode) \notin MinDate..MaxDate
    /\ (key = "PageUp" /\ pc = "panic") => FirstOfPreceding(cursor) < MinDate
    /\ (key = "PageDown" /\ pc = "panic") => FirstOfFollowing(cursor) > MaxDate
    /\ pc = "panic" => key \in Arrows \cup {"PageUp", "PageDown"}

\* C1: after every arrow key, from every cursor date, the cursor is the
\* cursor before the key shifted by the table's number of days for the mode
\* the key was pressed in.
C1_ArrowShift ==
    key \in Arrows => cursor = pre.cursor + TableDelta(key, pre.view_mode)

\* C2: after PageUp or PageDown the cursor is unchanged if the key was
\* pressed in Year mode; in Month mode it is day 1 of the following
\* (PageDown) or preceding (PageUp) month, wrapping the year.
C2_Paging ==
    /\ key = "PageDown" =>
          cursor = IF pre.view_mode = "Year" THEN pre.cursor ELSE FirstOfFollowing(pre.cursor)
    /\ key = "PageUp" =>
          cursor = IF pre.view_mode = "Year" THEN pre.cursor ELSE FirstOfPreceding(pre.cursor)

\* C3: each toggle at the cursor inserts true when the date has no entry
\* and flips the boolean when it has one; successive toggles on a date
\* without entry give absent, true, false, true.
C3_ToggleCycle ==
    /\ \A i \in 1..(Len(trail) - 1) :
          /\ cursor \in DOMAIN trail[i + 1]
          /\ trail[i + 1][cursor] = IF cursor \in DOMAIN trail[i] THEN ~trail[i][cursor] ELSE TRUE
    /\ (Len(trail) >= 4 /\ cursor \notin DOMAIN trail[1]) =>
          <<trail[2][cursor], trail[3][cursor], trail[4][cursor]>> = <<TRUE, FALSE, TRUE>>

\* C3 witness: three successive toggles on a date that had no entry
C3_Witness ==
    /\ key = "Space"
    /\ Len(trail) = 4
    /\ cursor \notin DOMAIN trail[1]
    /\ alcohol_log[cursor] = TRUE

\* C4: no step removes a date from the Habit Log: a date that has an entry
\* has one in every later state.
C4_LogNeverShrinks ==
    [][\A d \in DOMAIN alcohol_log : d \in DOMAIN alcohol_log']_vars

\* C4 witness: a date toggled on and off again is still logged, as false
C4_Witness ==
    /\ key = "Space"
    /\ Len(trail) >= 3
    /\ cursor \in DOMAIN alcohol_log
    /\ alcohol_log[cursor] = FALSE

\* C5 as stated: two successive toggles of the cursor date leave the Habit
\* Log equal to the log before them, whatever the log and the date.
C5_ToggleTwiceIdentity ==
    \A i \in 1..(Len(trail) - 2) : trail[i + 2] = trail[i]

\* C5 amended: two successive toggles restore the log when the date had an
\* entry; when it had none they leave it logged as false and every other
\* entry as it was.
C5_ToggleTwice ==
    \A i \in 1..(Len(trail) - 2) :
        IF cursor \in DOMAIN trail[i]
        THEN trail[i + 2] = trail[i]
        ELSE /\ DOMAIN trail[i + 2] = DOMAIN trail[i] \cup {cursor}
             /\ trail[i + 2][cursor] = FALSE
             /\ \A d \in DOMAIN trail[i] : trail[i + 2][d] = trail[i][d]

\* C5 witness: a date with an entry has been toggled twice in succession
C5_Witness ==
    /\ key = "Space"
    /\ Len(trail) >= 3
    /\ cursor \in DOMAIN trail[1]

\* C6: after Left, from any cursor and in either mode, Right gives back the
\* cursor Left started from; in Month mode, after PageDown, PageUp gives
\* day 1 of the month PageDown started from.
C6_NavRoundTrip ==
    /\ key = "Left" =>
          /\ pc # "panic"
          /\ arrow_right(view_mode, cursor) = {pre.cursor}
    /\ (key = "PageDown" /\ pre.view_mode = "Month") =>
          /\ pc # "panic"
          /\ page_up(view_mode, cursor)
                = {DaysFromCivil(year(pre.cursor), month(pre.cursor), 1)}

\* C7: after 'y' the mode is Year and after 'm' it is Month, whatever the
\* mode before, and the cursor and the Habit Log are those before the key.
C7_ModeSwitch ==
    /\ key = "y" => view_mode = "Year"
    /\ key = "m" => view_mode = "Month"
    /\ key \in {"y", "m"} => (cursor = pre.cursor /\ alcohol_log = pre.log)

\* C7 witness: 'y' pressed in Month mode, with a log that is not the initial one
C7_Witness ==
    /\ key = "y"
    /\ pre.view_mode = "Month"
    /\ view_mode = "Year"
    /\ \E d \in DOMAIN alcohol_log : ~alcohol_log[d]

\* C8: no arrow or paging key aborts the program: the unwrap of a date
\* construction never meets None.
C8_NoAbort == pc # "panic"

\* C9: only 'q' ends the loop (a failed draw or read is no key and ends it
\* with an error instead), and from 'q' on no event is read and the
\* cursor, the view mode and the Habit Log stay as they are.
C9_OnlyQuitEnds ==
    /\ [](pc \in {"done", "panic"} => key = "q")
    /\ [][key = "q" => /\ events' = events
                       /\ cursor' = cursor
                       /\ view_mode' = view_mode
                       /\ alcohol_log' = alcohol_log]_vars

\* C10 as stated: when the loop blocks for the event after a key event,
\* exactly one render pass has been made since that key event was read.
C10_OneRenderPerKey ==
    (pc = "read" /\ keys > 0) => rendersSinceKey = 1

\* number of the App fields an event changed
FieldsChanged ==
    Cardinality({f \in {"cursor", "view_mode", "log"} : Snapshot[f] # pre[f]}
                \cup (IF should_quit THEN {"should_quit"} ELSE {}))

\* C10 amended: every event read (key or not) changes at most one field of
\* the state, and is followed by exactly one render pass, of the state as
\* the event left it, before the next event is read; so at least one render
\* pass lies between two key events.
C10_RenderPerEvent ==
    /\ FieldsChanged <= 1
    /\ pc = "read" => (rendersSinceEvent = 1 /\ drawn = Snapshot)
    /\ (pc = "loop" /\ events > 0) => rendersSinceEvent = 0
    /\ (pc = "read" /\ keys > 0) => rendersSinceKey >= 1

\* C10 witness: a key event, then a non-key event, each followed by its own
\* render pass
C10_Witness ==
    /\ pc = "read"
    /\ key = "NonKey"
    /\ keys > 0
    /\ rendersSinceKey = 2
    /\ rendersSinceEvent = 1

\* C11: every key changes only its own part of the state: an unrecognised
\* key changes nothing; arrow and paging keys leave the Habit Log and the
\* view mode as they were; the toggle leaves the cursor, the view mode and
\* the entry (or absence) of every date other than the cursor date.
C11_Frame ==
    /\ key = "Other" => (Snapshot = pre /\ ~should_quit)
    /\ key \in Arrows \cup {"PageUp", "PageDown"} =>
          (alcohol_log = pre.log /\ view_mode = pre.view_mode /\ ~should_quit)
    /\ key = "Space" =>
          /\ cursor = pre.cursor
          /\ view_mode = pre.view_mode
          /\ ~should_quit
          /\ DOMAIN alcohol_log \ {cursor} = DOMAIN pre.log \ {cursor}
          /\ \A d \in DOMAIN pre.log \ {cursor} : alcohol_log[d] = pre.log[d]

\* C11 witness: a toggle in Month mode that created an entry beside the
\* entries the log had
C11_Witness ==
    /\ key = "Space"
    /\ view_mode = "Month"
    /\ pre.cursor \notin DOMAIN pre.log
    /\ alcohol_log[cursor] = TRUE
    /\ DOMAIN pre.log # {}

\* the step-by-step render pass and RenderPanics agree on which passes panic
RenderPanicsAgrees ==
    /\ rpc = "panic" => RenderPanics(view_mode, cursor, term, overflow_checks)
    /\ rpc = "done" => ~RenderPanics(view_mode, cursor, term, overflow_checks)

----------------------------------------------------------------------------
(* Claims about a render pass (SpecRender) *)

\* the place a visited date was drawn at
CellOf(v) == <<v.frame, v.x, v.y>>

\* the colour of the Habit Log entry of a date, as the legend names it
BaseColour(date) ==
    IF date \notin DOMAIN alcohol_log THEN "Rgb(50,50,50)"
    ELSE IF alcohol_log[date] THEN "Red" ELSE "Green"

BaseGlyphs(date) ==
    IF date \in DOMAIN alcohol_log THEN {"FilledSquare"} ELSE {"HollowSquare", " "}

\* the cell of a visited date shows the base state of the Habit Log
ShowsBase(v) ==
    /\ CellOf(v) \in DOMAIN buf
    /\ buf[CellOf(v)].symbol \in BaseGlyphs(v.date)
    /\ buf[CellOf(v)].fg = BaseColour(v.date)

\* C13: in either view, the cell of a rendered date that is neither first
\* of month, today nor the cursor shows the base state of the Habit Log:
\* filled red for Some(true), filled green for Some(false), hollow or empty
\* in the dim neutral colour for no entry.
C13_BaseState ==
    \A i \in 1..Len(visited) :
        LET v == visited[i]
        IN  (/\ day(v.date) # 1 /\ v.date # now /\ v.date # cursor
             /\ (v.frame > 0 \/ v.x < term.width))
            => ShowsBase(v)

\* the Year view part of C13 alone (holds)
YearBaseState ==
    \A i \in 1..Len(visited) :
        LET v == visited[i]
        IN  (v.frame > 0 /\ day(v.date) # 1 /\ v.date # now /\ v.date # cursor)
            => ShowsBase(v)

\* the week row of the cell a visited date was drawn at
RowOf(v) == IF v.frame > 0 THEN v.y ELSE v.y - calendar_area.y - 2

\* the horizontal place of weekday column c in the frame of v
ColumnAt(v, c) == IF v.frame > 0 THEN c * 2 ELSE (calendar_area.x + c * 4) % 65536

\* C14: every date of every month is drawn at (weekRow, weekdayColumn) with
\* weekdayColumn = weekday (Sunday = 0 .. Saturday = 6) and weekRow =
\* (day of month - 1 + weekday of the 1st) div 7; the 1st is in row 0 in
\* the column of its weekday (5 for March 2024), weekRow is between 0 and
\* 5, and two dates of the same month never share a cell (every date is
\* compared, when it is drawn, with all the dates drawn before it).
C14_MonthLayout ==
    \A i \in 1..Len(visited) :
        LET v     == visited[i]
            first == DaysFromCivil(year(v.date), month(v.date), 1)
        IN  /\ v.x = ColumnAt(v, num_days_from_sunday(v.date))
            /\ RowOf(v) = (day(v.date) - 1 + num_days_from_sunday(first)) \div 7
            /\ RowOf(v) \in 0..5
            /\ v.date = first => RowOf(v) = 0
            /\ v.date = DaysFromCivil(2024, 3, 1) => v.x = ColumnAt(v, 5)
            /\ i = Len(visited) =>
                  \A j \in 1..(i - 1) :
                      visited[j].frame = v.frame => CellOf(visited[j]) # CellOf(v)

\* C14 witness: a finished Month render of March 2024: the 1st (a Friday)
\* in row 0, the 31st (a Sunday) in row 5
C14_Witness ==
    /\ rpc = "done"
    /\ view_mode = "Month"
    /\ Len(visited) = 31
    /\ visited[1].date = DaysFromCivil(2024, 3, 1)
    /\ RowOf(visited[1]) = 0
    /\ visited[1].x = calendar_area.x + 20
    /\ RowOf(visited[31]) = 5
    /\ visited[31].x = calendar_area.x

\* the dates first, first + 1, .. (n of them) in increasing order
DateRun(first, n) == [k \in 1..n |-> first + k - 1]

\* the dates visited so far, in the order of the visits
VisitedDates == [k \in 1..Len(visited) |-> visited[k].date]

\* the dates of the months before month m of year y, then of month m up to
\* (not including) date upto
YearRun(y, m, upto) == DateRun(DaysFromCivil(y, 1, 1), upto - DaysFromCivil(y, 1, 1))

\* the range of the month being drawn is day 1 .. last day of the calendar
\* month, and the dates visited are exactly its dates before current_date
\* (Year view: preceded by the whole months before it), once each, in
\* increasing order
RangeVisited ==
    /\ rpc = "year_loop" =>
          LET y == year(cursor)
          IN  /\ first_day_of_month = DaysFromCivil(y, month_i, 1)
              /\ last_day_of_month = first_day_of_month + DaysInMonth(y, month_i) - 1
              /\ current_date <= last_day_of_month + 1
              /\ VisitedDates = YearRun(y, month_i, current_date)
    /\ rpc = "month_loop" =>
          LET y == year(cursor)
              m == month(cursor)
          IN  /\ first_day_of_month = DaysFromCivil(y, m, 1)
              /\ last_day_of_month = first_day_of_month + DaysInMonth(y, m) - 1
              /\ current_date <= last_day_of_month + 1
              /\ VisitedDates = DateRun(first_day_of_month, current_date - first_day_of_month)
    /\ (rpc = "done" /\ view_mode = "Month") =>
          VisitedDates = DateRun(DaysFromCivil(year(cursor), month(cursor), 1),
                                 DaysInMonth(year(cursor), month(cursor)))
    /\ (rpc = "done" /\ view_mode = "Year" /\ month_i > 0) =>
          VisitedDates = DateRun(DaysFromCivil(year(cursor), 1, 1),
                                 IF IsLeap(year(cursor)) THEN 366 ELSE 365)

\* a render pass aborted while computing the range of a month or stepping
\* to the next date
RangeAbort ==
    /\ rpc = "panic"
    /\ \/ view_mode = "Year"
       \/ month_bounds(year(cursor), month(cursor)) = {}
       \/ (visited # <<>> /\ succ_opt(visited[Len(visited)].date) = {})

\* C15: for every year y and month m the rendered range of a month runs
\* from day 1 to the day before day 1 of the following month (Dec 31 of y
\* for m = 12), and a render pass visits every date of the range exactly
\* once in increasing date order and then stops.
C15_MonthRange == RangeVisited /\ ~RangeAbort

\* the visits i, i + 1 are two successive dates drawn by the Year view
YearSuccessive(i) == i + 1 <= Len(visited) /\ visited[i].frame > 0

C17_SmallAreaNoGrid ==
    (/\ view_mode = "Year"
     /\ (GraphArea(term).width < 106 \/ GraphArea(term).height < 8))
    => /\ buf = EmptyBuffer
       /\ visited = <<>>
       /\ rpc \in {"start", "done"}

\* C17 witness: a finished Year render on an area wide enough (106
\* columns) but one row too short (7 rows), nothing drawn
C17_Witness ==
    /\ rpc = "done"
    /\ view_mode = "Year"
    /\ GraphArea(term).width >= 106
    /\ GraphArea(term).height = 7
    /\ buf = EmptyBuffer

\* the cell of a visited date carries the cursor highlight: white glyph in
\* the Year view, white background in the Month view
Highlighted(v) ==
    /\ CellOf(v) \in DOMAIN buf
    /\ IF v.frame > 0 THEN buf[CellOf(v)].fg = "White" ELSE buf[CellOf(v)].bg = "White"

\* the dates drawn lie in the cursor's year (Year mode) or month (Month
\* mode), the cursor date is drawn once and its cell alone is highlighted
CursorDrawn ==
    /\ \A i \in 1..Len(visited) :
          /\ year(visited[i].date) = year(cursor)
          /\ view_mode = "Month" => month(visited[i].date) = month(cursor)
    /\ Cardinality({i \in 1..Len(visited) : visited[i].date = cursor}) = 1
    /\ {i \in 1..Len(visited) : Highlighted(visited[i])}
           = {i \in 1..Len(visited) : visited[i].date = cursor}

\* C19: when a render pass has ended, the dates it drew are those of the
\* year (Year mode) or month (Month mode) containing the cursor, the cursor
\* date is one of them and exactly one drawn cell carries the cursor
\* highlight.
C19_CursorRendered == rpc \in {"done", "panic"} => CursorDrawn

\* the same for the passes that ran to their end on an area the grid fits
\* in (holds)
CursorDrawnWhenFits ==
    (/\ rpc = "done"
     /\ view_mode = "Year" => ~too_small(GraphArea(term))
     /\ view_mode = "Month" => calendar_area.x + 28 <= term.width)
    => CursorDrawn

\* the centring offset (inner width - 28) / 2 of a Month render is computed
\* from an inner width of at least 28
NoCentringUnderflow ==
    (view_mode = "Month" /\ rpc # "start") => Inner(GraphArea(term)).width >= 28

\* the two characters of every day cell lie within the 28 columns and the
\* 7 rows of calendar_area
CellsInsideCalendar ==
    \A i \in 1..Len(visited) :
        LET v == visited[i]
        IN  v.frame = 0 =>
               /\ v.x >= calendar_area.x
               /\ v.x + 2 <= calendar_area.x + calendar_area.width
               /\ v.y >= calendar_area.y
               /\ v.y < calendar_area.y + calendar_area.height

\* C20: for every month and every drawing-area size the Month view stays
\* inside its 28-column x 7-row calendar rectangle: the centring offset is
\* computed without unsigned 16-bit underflow, and every day cell lies
\* within the rectangle's width and height.
C20_InsideCalendar == NoCentringUnderflow /\ CellsInsideCalendar

----------------------------------------------------------------------------
(* Claim about main (SpecMain) *)

\* main has returned
Returned == mpc \in {"returned_ok", "returned_err"}

\* C18: when a step of the terminal setup or event reading/drawing has
\* failed and the process has terminated, every terminal mode change made
\* (raw mode, alternate screen, mouse capture) has been undone and the
\* error has been reported.
C18_RestoredOnFailure ==
    (Returned /\ failed_step \in {"setup", "run_app"})
    => /\ ~raw_mode
       /\ ~alt_screen
       /\ ~mouse_capture
       /\ reported

\* the part of C18 that holds: after a failure inside run_app, when no
\* step of the restore fails, the modes are undone and the error is printed
RestoredAfterRunAppError ==
    (mpc = "returned_ok" /\ failed_step = "run_app")
    => /\ ~raw_mode
       /\ ~alt_screen
       /\ ~mouse_capture
       /\ reported

====
